---- MODULE Spec2Model ----
(***************************************************************************)
(* Session registry, lifecycle supervisor and administrative operations of *)
(* the central system (src/central_system_aryeh/central_system.py and the  *)
(* handlers of src/central_system_aryeh/central_system_aryeh.py).          *)
(*                                                                         *)
(* The program runs on one asyncio event loop: the code between two awaits *)
(* of a coroutine is one atomic step, and every action below is one such   *)
(* step.  A ChargePoint object, its supervisor task and its teardown queue *)
(* are created together by one on_connect call and are all named by the   *)
(* number of that connection.                                              *)
(*                                                                         *)
(* self._chargers is a CPython dict keyed by the ChargePoint object (the   *)
(* class defines no __eq__/__hash__, so the key is the object's identity). *)
(* It is modelled as CPython stores it: the insertion-ordered entry array, *)
(* in which a deleted key leaves a dummy slot.  A dummy slot is written as *)
(* the negated key, so that the history stays readable; no operation of    *)
(* the dict looks at the value behind a dummy.  The entry array is only    *)
(* compacted when a dict grows past five insertions, which NumConn stays   *)
(* below.                                                                  *)
(***************************************************************************)
EXTENDS Integers, Sequences, FiniteSets, TLC

\* Number of connections the websocket server accepts in one behaviour.
NumConn == 2

\* Number of broadcast requests (POST /) served in one behaviour.
MaxBroadcasts == 1

\* asyncio.Queue(maxsize=1)
QueueMaxsize == 1

Conn == 1..NumConn

\* Request paths of connecting devices, as sequences of characters.
Paths == { <<"/">>, <<"/", "A">>, <<"/", "A", "/">> }

\* The sentinel id given to a connection whose path holds no id.
NoneId == <<"n", "o", "n", "e">>

\* Ids an administrator may name in a request.
AdminIds == { <<"A">>, <<"B">>, NoneId }

\* cp.id of a ChargePoint that has not been constructed yet.
NoId == <<"?">>

VARIABLES
    chargers,      \* self._chargers: entry array of the dict (cp -> task)
    cp_id,         \* cp.id of the ChargePoint of each connection
    task,          \* state of the supervisor task of each connection
    must_cancel,   \* a cancellation of the task is requested and not yet delivered
    queue,         \* number of items in the teardown queue of each connection
    acceptor,      \* position of the on_connect handler of each connection
    dels,          \* history: times `del self._chargers[cp]` removed the entry
    puts,          \* history: times queue.put(True) completed
    disc_resp,     \* response of the last POST /disconnect request
    bc_pc,         \* position of the change_config handler (the broadcast)
    bc_it,         \* the dict iterator of the broadcast's for loop
    bc_cur,        \* the ChargePoint the broadcast is awaiting a reply of
    bc_err,        \* the exception that ended the broadcast
    bc_start,      \* history: the registered sessions when the broadcast began
    bc_runs,       \* number of broadcasts started
    calls,         \* history: change_configuration calls issued to each cp by the broadcast
    q_pc,          \* position of the get_configuration handler (the query)
    q_cur,         \* the ChargePoint the query is awaiting a reply of
    q_resp,        \* response to the last GET /cp/... request (status 0: not yet given)
    disc_again     \* history: a disconnect was requested again while one was pending

\* The variables of the query handlers.
qvars == << q_pc, q_cur, q_resp >>

vars == << chargers, cp_id, task, must_cancel, queue, acceptor, dels, puts,
           disc_resp, bc_pc, bc_it, bc_cur, bc_err, bc_start,
           bc_runs, calls, q_pc, q_cur, q_resp, disc_again >>

----------------------------------------------------------------------------
\* str.strip("/"): drop every leading and every trailing "/".

RECURSIVE LStrip(_)
LStrip(s) ==
    IF s # << >> /\ Head(s) = "/" THEN LStrip(Tail(s)) ELSE s

RECURSIVE RStrip(_)
RStrip(s) ==
    IF s # << >> /\ s[Len(s)] = "/" THEN RStrip(SubSeq(s, 1, Len(s) - 1)) ELSE s

Strip(s) == RStrip(LStrip(s))

\* A buggy id: the empty id is kept as it is.
ChargePointIdRaw(path) == Strip(path)

\* The id on_connect gives the ChargePoint of a connection with this path.
ChargePointId(path) ==
    IF Strip(path) = << >> THEN NoneId ELSE Strip(path)

----------------------------------------------------------------------------
\* The dict self._chargers.

\* The keys of the dict (the registered ChargePoints).
DictKeys(d) == { d[i] : i \in DOMAIN d } \cap Conn

\* len(d), the ma_used field.
DictUsed(d) == Cardinality(DictKeys(d))

\* d[k] = v for a key that is not in the dict: a new entry at the end.
DictSetItem(d, k) == Append(d, k)

\* A buggy removal: every entry is removed with the key (as d.clear() does).
DictDelAll(d, k) == [ i \in DOMAIN d |-> IF d[i] \in Conn THEN 0 - d[i] ELSE d[i] ]

\* del d[k]: the entry becomes a dummy slot.
DictDelItem(d, k) == [ i \in DOMAIN d |-> IF d[i] = k THEN 0 - k ELSE d[i] ]

\* iter(d): the iterator remembers the size of the dict.
DictIter(d) == [ di_used |-> DictUsed(d), di_pos |-> 1, len |-> DictUsed(d) ]

\* Index of the first live entry at or after position i, Len(d) + 1 if none.
RECURSIVE SkipDummies(_, _)
SkipDummies(d, i) ==
    IF i <= Len(d) /\ d[i] \notin Conn THEN SkipDummies(d, i + 1) ELSE i

\* A buggy iteration: the loop runs over the entries as they were inserted,
\* without noticing deletions (as a loop over a stale copy of the keys does).
DictIterNextStale(it, d) ==
    IF it.di_pos > Len(d)
    THEN [ kind |-> "stop", key |-> 0, it |-> it ]
    ELSE [ kind |-> "item",
           key |-> IF d[it.di_pos] \in Conn THEN d[it.di_pos] ELSE 0 - d[it.di_pos],
           it |-> [ it EXCEPT !.di_pos = it.di_pos + 1 ] ]

\* next(it) on a dict iterator (dictiter_iternextkey): kind is "item" with
\* the key, "stop" (StopIteration), or "error" (RuntimeError).
DictIterNext(it, d) ==
    IF it.di_used # DictUsed(d)
    THEN \* dictionary changed size during iteration; the state is sticky
         [ kind |-> "error", key |-> 0, it |-> [ it EXCEPT !.di_used = 0 - 1 ] ]
    ELSE LET i == SkipDummies(d, it.di_pos) IN
         IF i > Len(d)
         THEN [ kind |-> "stop", key |-> 0, it |-> it ]
         ELSE IF it.len = 0
              THEN \* dictionary keys changed during iteration
                   [ kind |-> "error", key |-> 0, it |-> it ]
              ELSE [ kind |-> "item", key |-> d[i],
                     it |-> [ it EXCEPT !.di_pos = i + 1, !.len = it.len - 1 ] ]

----------------------------------------------------------------------------
Init ==
    /\ chargers = << >>
    /\ cp_id = [ c \in Conn |-> NoId ]
    /\ task = [ c \in Conn |-> "none" ]
    /\ must_cancel = [ c \in Conn |-> FALSE ]
    /\ queue = [ c \in Conn |-> 0 ]
    /\ acceptor = [ c \in Conn |-> "idle" ]
    /\ dels = [ c \in Conn |-> 0 ]
    /\ puts = [ c \in Conn |-> 0 ]
    /\ disc_resp = [ id |-> NoId, status |-> 0 ]
    /\ bc_pc = "idle"
    /\ bc_it = DictIter(<< >>)
    /\ bc_cur = 0
    /\ bc_err = "none"
    /\ bc_start = {}
    /\ bc_runs = 0
    /\ calls = [ c \in Conn |-> 0 ]
    /\ q_pc = "idle"
    /\ q_cur = 0
    /\ q_resp = [ op |-> "none", status |-> 0, error |-> "none", body |-> "none" ]
    /\ disc_again = [ c \in Conn |-> FALSE ]

----------------------------------------------------------------------------
\* on_connect and CentralSystem.register_charger.

\* A buggy registration: the teardown queue is created holding an item.
OnConnectQueueFull(c, path) ==
    /\ acceptor[c] = "idle"
    /\ c = Len(chargers) + 1
    /\ cp_id' = [ cp_id EXCEPT ![c] = ChargePointId(path) ]
    /\ queue' = [ queue EXCEPT ![c] = QueueMaxsize ]
    /\ task' = [ task EXCEPT ![c] = "pending" ]
    /\ chargers' = DictSetItem(chargers, c)
    /\ acceptor' = [ acceptor EXCEPT ![c] = "waiting" ]
    /\ UNCHANGED << must_cancel, dels, puts, disc_resp, bc_pc,
                    bc_it, bc_cur, bc_err, bc_start, bc_runs, calls >>
    /\ UNCHANGED << qvars, disc_again >>

\* on_connect up to its await of queue.get(): the ChargePoint is built with
\* the id of the path, register_charger makes the queue, creates the
\* supervisor task (which has not run yet) and stores it in the dict.
\* Connections are numbered in the order they are accepted.
OnConnect(c, path) ==
    /\ acceptor[c] = "idle"
    /\ c = Len(chargers) + 1
    /\ cp_id' = [ cp_id EXCEPT ![c] = ChargePointId(path) ]
    /\ queue' = [ queue EXCEPT ![c] = 0 ]
    /\ task' = [ task EXCEPT ![c] = "pending" ]
    /\ chargers' = DictSetItem(chargers, c)
    /\ acceptor' = [ acceptor EXCEPT ![c] = "waiting" ]
    /\ UNCHANGED << must_cancel, dels, puts, disc_resp, bc_pc,
                    bc_it, bc_cur, bc_err, bc_start, bc_runs, calls >>
    /\ UNCHANGED << qvars, disc_again >>

\* on_connect resumes from queue.get() and returns: the connection is closed.
OnConnectReturns(c) ==
    /\ acceptor[c] = "waiting"
    /\ queue[c] > 0
    /\ queue' = [ queue EXCEPT ![c] = @ - 1 ]
    /\ acceptor' = [ acceptor EXCEPT ![c] = "returned" ]
    /\ UNCHANGED << chargers, cp_id, task, must_cancel, dels, puts,
                    disc_resp, bc_pc, bc_it, bc_cur, bc_err,
                    bc_start, bc_runs, calls >>
    /\ UNCHANGED << qvars, disc_again >>

----------------------------------------------------------------------------
\* CentralSystem.start_charger, the supervisor task.

\* A buggy finally block: the signal is put and the entry is left behind.
FinallyKeepsEntry(c, end) ==
    /\ queue' = [ queue EXCEPT ![c] = @ + 1 ]
    /\ puts' = [ puts EXCEPT ![c] = @ + 1 ]
    /\ task' = [ task EXCEPT ![c] = end ]
    /\ UNCHANGED << chargers, dels >>

\* The finally block of start_charger, after which the task ends in state
\* `end`.  del raises KeyError when the key is gone: the put is then not
\* reached and the task ends with that exception ("failed").  put suspends
\* when the queue is full.
Finally(c, end) ==
    IF c \in DictKeys(chargers)
    THEN /\ chargers' = DictDelItem(chargers, c)
         /\ dels' = [ dels EXCEPT ![c] = @ + 1 ]
         /\ IF queue[c] < QueueMaxsize
            THEN /\ queue' = [ queue EXCEPT ![c] = @ + 1 ]
                 /\ puts' = [ puts EXCEPT ![c] = @ + 1 ]
                 /\ task' = [ task EXCEPT ![c] = end ]
            ELSE /\ task' = [ task EXCEPT ![c] = "putting" ]
                 /\ UNCHANGED << queue, puts >>
    ELSE /\ task' = [ task EXCEPT ![c] = "failed" ]
         /\ UNCHANGED << chargers, dels, queue, puts >>

\* The first step of the task.  A task cancelled before its first step gets
\* CancelledError thrown into the coroutine before its first statement: the
\* try block is never entered and the task ends cancelled.  Otherwise the
\* coroutine runs into cp.start() and suspends in the read loop.
StartChargerFirstStep(c) ==
    /\ task[c] = "pending"
    /\ IF must_cancel[c]
       THEN /\ task' = [ task EXCEPT ![c] = "cancelled" ]
            /\ must_cancel' = [ must_cancel EXCEPT ![c] = FALSE ]
       ELSE /\ task' = [ task EXCEPT ![c] = "running" ]
            /\ UNCHANGED must_cancel
    /\ UNCHANGED << chargers, cp_id, queue, acceptor, dels, puts, disc_resp,
                    bc_pc, bc_it, bc_cur, bc_err, bc_start, bc_runs, calls >>
    /\ UNCHANGED << qvars, disc_again >>

\* cp.start() raises an Exception (closed connection, malformed frame,
\* handler fault): the except clause prints it and the finally block runs.
StartRaises(c) ==
    /\ task[c] = "running"
    /\ ~must_cancel[c]
    /\ Finally(c, "done")
    /\ UNCHANGED << cp_id, must_cancel, acceptor, disc_resp,
                    bc_pc, bc_it, bc_cur, bc_err, bc_start, bc_runs, calls >>
    /\ UNCHANGED << qvars, disc_again >>

\* cp.start() returns: the finally block runs.
StartReturns(c) ==
    /\ task[c] = "running"
    /\ ~must_cancel[c]
    /\ Finally(c, "done")
    /\ UNCHANGED << cp_id, must_cancel, acceptor, disc_resp,
                    bc_pc, bc_it, bc_cur, bc_err, bc_start, bc_runs, calls >>
    /\ UNCHANGED << qvars, disc_again >>

\* The requested cancellation is delivered at the await of cp.start():
\* CancelledError is no Exception, so only the finally block runs, and the
\* task ends cancelled.
StartCancelled(c) ==
    /\ task[c] = "running"
    /\ must_cancel[c]
    /\ must_cancel' = [ must_cancel EXCEPT ![c] = FALSE ]
    /\ Finally(c, "cancelled")
    /\ UNCHANGED << cp_id, acceptor, disc_resp, bc_pc, bc_it,
                    bc_cur, bc_err, bc_start, bc_runs, calls >>
    /\ UNCHANGED << qvars, disc_again >>

----------------------------------------------------------------------------
\* CentralSystem.disconnect_charger and its HTTP handler.

\* task.cancel(): a request on a task that has not finished, nothing on one
\* that has.
TaskCancel(c) ==
    IF task[c] \in { "pending", "running", "putting" }
    THEN [ must_cancel EXCEPT ![c] = TRUE ]
    ELSE must_cancel

\* Position in the dict of the first ChargePoint with this id, 0 if none.
RECURSIVE FirstMatchFrom(_, _, _)
FirstMatchFrom(d, id, i) ==
    IF i > Len(d) THEN 0
    ELSE IF d[i] \in Conn /\ cp_id[d[i]] = id THEN i
    ELSE FirstMatchFrom(d, id, i + 1)

FirstMatch(d, id) == FirstMatchFrom(d, id, 1)

\* A buggy disconnect: an id that matches nothing falls through to the
\* first registered session.
disconnect_charger_fallthrough(id) ==
    LET i == FirstMatch(chargers, id)
        j == SkipDummies(chargers, 1)
    IN  IF i # 0
        THEN [ raised |-> FALSE, must_cancel |-> TaskCancel(chargers[i]),
               chargers |-> chargers, queue |-> queue ]
        ELSE IF j <= Len(chargers)
        THEN [ raised |-> FALSE, must_cancel |-> TaskCancel(chargers[j]),
               chargers |-> chargers, queue |-> queue ]
        ELSE [ raised |-> TRUE, must_cancel |-> must_cancel,
               chargers |-> chargers, queue |-> queue ]

\* A buggy disconnect: the entry is deleted by the caller of cancel().
disconnect_charger_deletes(id) ==
    LET i == FirstMatch(chargers, id)
    IN  IF i # 0
        THEN [ raised |-> FALSE, must_cancel |-> TaskCancel(chargers[i]),
               chargers |-> DictDelItem(chargers, chargers[i]), queue |-> queue ]
        ELSE [ raised |-> TRUE, must_cancel |-> must_cancel,
               chargers |-> chargers, queue |-> queue ]

\* disconnect_charger(id): what it leaves of the cancellation requests, the
\* dict and the queues, and whether it raised ValueError.
disconnect_charger(id) ==
    LET i == FirstMatch(chargers, id)
    IN  IF i # 0
        THEN [ raised |-> FALSE, must_cancel |-> TaskCancel(chargers[i]),
               chargers |-> chargers, queue |-> queue ]
        ELSE [ raised |-> TRUE, must_cancel |-> must_cancel,
               chargers |-> chargers, queue |-> queue ]

\* The handler of POST /disconnect: 404 on ValueError, 200 otherwise.
DisconnectRequest(id) ==
    LET r == disconnect_charger(id)
    IN  /\ must_cancel' = r.must_cancel
        /\ chargers' = r.chargers
        /\ queue' = r.queue
        /\ disc_resp' = [ id |-> id, status |-> IF r.raised THEN 404 ELSE 200 ]
        /\ UNCHANGED << cp_id, task, acceptor, dels, puts, bc_pc, bc_it,
                        bc_cur, bc_err, bc_start, bc_runs, calls >>
        /\ UNCHANGED qvars

DisconnectHandler(id) ==
    /\ DisconnectRequest(id)
    /\ UNCHANGED disc_again

\* The same handler, serving a request for a session whose cancellation is
\* already requested and not yet delivered; the history notes the repetition.
DisconnectAgain(id) ==
    LET i == FirstMatch(chargers, id)
    IN  /\ i # 0
        /\ must_cancel[chargers[i]]
        /\ DisconnectRequest(id)
        /\ disc_again' = [ disc_again EXCEPT ![chargers[i]] = TRUE ]

----------------------------------------------------------------------------
\* CentralSystem.change_configuration (the broadcast) and its HTTP handler.

\* Exceptions an awaited cp.change_configuration call can raise.
CallErrors == { "TimeoutError", "ConnectionClosed" }

\* A buggy loop: the call is issued without being awaited, so the call to
\* the session after it is issued in the same step.
BroadcastLoopNoAwait(it, issued) ==
    LET r == DictIterNext(it, chargers)
        r2 == DictIterNext(r.it, chargers)
    IN  IF r.kind = "item" /\ r2.kind = "item"
        THEN /\ bc_it' = r2.it
             /\ bc_cur' = r2.key
             /\ bc_pc' = "awaiting"
             /\ calls' = [ issued EXCEPT ![r.key] = @ + 1, ![r2.key] = @ + 1 ]
             /\ bc_err' = "none"
        ELSE /\ bc_it' = r.it
             /\ bc_cur' = r.key
             /\ IF r.kind = "item"
                THEN /\ bc_pc' = "awaiting"
                     /\ calls' = [ issued EXCEPT ![r.key] = @ + 1 ]
                     /\ bc_err' = "none"
                ELSE /\ bc_pc' = IF r.kind = "stop" THEN "done" ELSE "raised"
                     /\ calls' = issued
                     /\ bc_err' = IF r.kind = "stop" THEN "none" ELSE "RuntimeError"

\* The for loop from next(it) to its next suspension: the call to the next
\* ChargePoint is issued and awaited, or the loop ends (the handler answers
\* 200), or next(it) raises RuntimeError out of the handler.
BroadcastLoop(it, issued) ==
    LET r == DictIterNext(it, chargers)
    IN  /\ bc_it' = r.it
        /\ bc_cur' = r.key
        /\ IF r.kind = "item"
           THEN /\ bc_pc' = "awaiting"
                /\ calls' = [ issued EXCEPT ![r.key] = @ + 1 ]
                /\ bc_err' = "none"
           ELSE /\ bc_pc' = IF r.kind = "stop" THEN "done" ELSE "raised"
                /\ calls' = issued
                /\ bc_err' = IF r.kind = "stop" THEN "none" ELSE "RuntimeError"

\* The handler of POST / starts the broadcast.
ChangeConfig ==
    /\ bc_pc \in { "idle", "done", "raised" }
    /\ bc_runs < MaxBroadcasts
    /\ bc_runs' = bc_runs + 1
    /\ bc_start' = DictKeys(chargers)
    /\ BroadcastLoop(DictIter(chargers), [ c \in Conn |-> 0 ])
    /\ UNCHANGED << chargers, cp_id, task, must_cancel, queue, acceptor, dels,
                    puts, disc_resp >>
    /\ UNCHANGED << qvars, disc_again >>

\* The awaited call returns and the loop goes on.
CallReturns ==
    /\ bc_pc = "awaiting"
    /\ BroadcastLoop(bc_it, calls)
    /\ UNCHANGED << chargers, cp_id, task, must_cancel, queue, acceptor, dels,
                    puts, disc_resp, bc_start, bc_runs >>
    /\ UNCHANGED << qvars, disc_again >>

\* A buggy failure path: the session whose call failed is disconnected.
CallRaisesAndCancels(e) ==
    /\ bc_pc = "awaiting"
    /\ bc_pc' = "raised"
    /\ bc_err' = e
    /\ must_cancel' = TaskCancel(bc_cur)
    /\ UNCHANGED << chargers, cp_id, task, queue, acceptor, dels,
                    puts, disc_resp, bc_it, bc_cur, bc_start,
                    bc_runs, calls >>
    /\ UNCHANGED << qvars, disc_again >>

\* The awaited call raises: nothing catches it, the broadcast ends there.
CallRaises(e) ==
    /\ bc_pc = "awaiting"
    /\ bc_pc' = "raised"
    /\ bc_err' = e
    /\ UNCHANGED << chargers, cp_id, task, must_cancel, queue, acceptor, dels,
                    puts, disc_resp, bc_it, bc_cur, bc_start,
                    bc_runs, calls >>
    /\ UNCHANGED << qvars, disc_again >>

----------------------------------------------------------------------------
\* CentralSystem.get_configuration and the handlers of GET /cp/{id}/configuration
\* and GET /cp/{id}/remotestart.

\* The attributes of a CentralSystem object.
CentralSystemAttrs ==
    { "_chargers", "register_charger", "start_charger", "change_configuration",
      "disconnect_charger", "get_configuration" }

\* Results a device may give to a GetConfiguration call.
Payloads == { "conf1", "conf2" }

\* A buggy lookup: the id is not compared, the first registered session is taken.
get_configuration_first(id) ==
    LET j == SkipDummies(chargers, 1)
    IN  IF j <= Len(chargers)
        THEN [ raised |-> FALSE, cp |-> chargers[j] ]
        ELSE [ raised |-> TRUE, cp |-> 0 ]

\* get_configuration(id) up to its await: the ChargePoint whose
\* get_configuration() is called and awaited, or ValueError raised.
get_configuration(id) ==
    LET i == FirstMatch(chargers, id)
    IN  IF i # 0
        THEN [ raised |-> FALSE, cp |-> chargers[i] ]
        ELSE [ raised |-> TRUE, cp |-> 0 ]

\* The first lines of both handlers: the id of the request.  has_id is what
\* hasattr(request.match_info, 'id') answers; without it the id is asked of
\* csms.charger_id(), an attribute CentralSystem does not have.
RequestId(id, has_id) ==
    IF has_id THEN [ error |-> "none", id |-> id ]
    ELSE IF "charger_id" \in CentralSystemAttrs THEN [ error |-> "none", id |-> << >> ]
    ELSE [ error |-> "AttributeError", id |-> << >> ]

\* A response of a query handler; an exception the handler does not catch is
\* answered 500 by the HTTP server.
Response(op, status, error, body) ==
    [ op |-> op, status |-> status, error |-> error, body |-> body ]

\* The get_configuration handler up to its await (or to its response).
GetConfigurationHandler(id, has_id) ==
    LET rid == RequestId(id, has_id)
        r == get_configuration(rid.id)
    IN  /\ q_pc = "idle"
        /\ IF rid.error # "none"
           THEN /\ q_resp' = Response("get_configuration", 500, rid.error, "none")
                /\ UNCHANGED << q_pc, q_cur >>
           ELSE IF rid.id = << >>
           THEN /\ q_resp' = Response("get_configuration", 200, "none", "No charger")
                /\ UNCHANGED << q_pc, q_cur >>
           ELSE IF r.raised
           THEN /\ q_resp' = Response("get_configuration", 404, "ValueError", "none")
                /\ UNCHANGED << q_pc, q_cur >>
           ELSE /\ q_pc' = "awaiting"
                /\ q_cur' = r.cp
                /\ q_resp' = Response("get_configuration", 0, "none", "none")
        /\ UNCHANGED << chargers, cp_id, task, must_cancel, queue, acceptor,
                        dels, puts, disc_resp, bc_pc, bc_it, bc_cur, bc_err,
                        bc_start, bc_runs, calls, disc_again >>

\* The awaited cp.get_configuration() returns: the handler answers 200 with
\* the result.
GetConfigurationReturns(payload) ==
    /\ q_pc = "awaiting"
    /\ q_pc' = "idle"
    /\ q_cur' = 0
    /\ q_resp' = Response("get_configuration", 200, "none", payload)
    /\ UNCHANGED << chargers, cp_id, task, must_cancel, queue, acceptor, dels,
                    puts, disc_resp, bc_pc, bc_it, bc_cur, bc_err, bc_start,
                    bc_runs, calls, disc_again >>

\* The awaited cp.get_configuration() raises: the handler catches ValueError
\* only.
GetConfigurationRaises(e) ==
    /\ q_pc = "awaiting"
    /\ q_pc' = "idle"
    /\ q_cur' = 0
    /\ q_resp' = Response("get_configuration", 500, e, "none")
    /\ UNCHANGED << chargers, cp_id, task, must_cancel, queue, acceptor, dels,
                    puts, disc_resp, bc_pc, bc_it, bc_cur, bc_err, bc_start,
                    bc_runs, calls, disc_again >>

\* The remote_start handler: after the id it calls
\* csms.remote_start_transaction, an attribute CentralSystem does not have.
RemoteStartHandler(id, has_id) ==
    LET rid == RequestId(id, has_id)
    IN  /\ IF rid.error # "none"
           THEN q_resp' = Response("remote_start", 500, rid.error, "none")
           ELSE IF rid.id = << >>
           THEN q_resp' = Response("remote_start", 200, "none", "No charger")
           ELSE IF "remote_start_transaction" \notin CentralSystemAttrs
           THEN q_resp' = Response("remote_start", 500, "AttributeError", "none")
           ELSE q_resp' = Response("remote_start", 404, "ValueError", "none")
        /\ UNCHANGED << chargers, cp_id, task, must_cancel, queue, acceptor,
                        dels, puts, disc_resp, bc_pc, bc_it, bc_cur, bc_err,
                        bc_start, bc_runs, calls, q_pc, q_cur, disc_again >>

----------------------------------------------------------------------------
\* The sessions' lifecycle and the disconnect together with the broadcast.
Next ==
    \/ \E c \in Conn, path \in Paths : OnConnect(c, path)
    \/ \E c \in Conn : OnConnectReturns(c)
    \/ \E c \in Conn : StartChargerFirstStep(c)
    \/ \E c \in Conn : StartRaises(c)
    \/ \E c \in Conn : StartReturns(c)
    \/ \E c \in Conn : StartCancelled(c)
    \/ \E id \in AdminIds : DisconnectHandler(id)
    \/ ChangeConfig
    \/ CallReturns
    \/ \E e \in CallErrors : CallRaises(e)

Spec == Init /\ [][Next]_vars

\* The sessions' lifecycle and the disconnect together with the queries.
QueryNext ==
    \/ \E c \in Conn, path \in Paths : OnConnect(c, path)
    \/ \E c \in Conn : OnConnectReturns(c)
    \/ \E c \in Conn : StartChargerFirstStep(c)
    \/ \E c \in Conn : StartRaises(c)
    \/ \E c \in Conn : StartReturns(c)
    \/ \E c \in Conn : StartCancelled(c)
    \/ \E id \in AdminIds : DisconnectHandler(id)
    \/ \E id \in AdminIds, has_id \in BOOLEAN : GetConfigurationHandler(id, has_id)
    \/ \E payload \in Payloads : GetConfigurationReturns(payload)
    \/ \E e \in CallErrors : GetConfigurationRaises(e)
    \/ \E id \in AdminIds, has_id \in BOOLEAN : RemoteStartHandler(id, has_id)

QuerySpec == Init /\ [][QueryNext]_vars

\* Every operation of the program.
FullNext == Next \/ QueryNext

FullSpec == Init /\ [][FullNext]_vars

\* The removal of the finally block as an operation of its own: the block is
\* run once more for a session that it has already removed.  No task of the
\* program does this; RemoveSpec applies the operation to every registry the
\* program reaches, to see what it does with an absent entry.
FinallyAgain(c) ==
    /\ task[c] \in { "done", "cancelled" }
    /\ c \notin DictKeys(chargers)
    /\ Finally(c, "done")
    /\ UNCHANGED << cp_id, must_cancel, acceptor, disc_resp, bc_pc, bc_it,
                    bc_cur, bc_err, bc_start, bc_runs, calls >>
    /\ UNCHANGED << qvars, disc_again >>

RemoveNext ==
    \/ \E c \in Conn, path \in Paths : OnConnect(c, path)
    \/ \E c \in Conn : OnConnectReturns(c)
    \/ \E c \in Conn : StartChargerFirstStep(c)
    \/ \E c \in Conn : StartRaises(c)
    \/ \E c \in Conn : StartReturns(c)
    \/ \E c \in Conn : StartCancelled(c)
    \/ \E id \in AdminIds : DisconnectHandler(id)
    \/ \E c \in Conn : FinallyAgain(c)

RemoveSpec == Init /\ [][RemoveNext]_vars

\* The sessions' lifecycle with repeated disconnect requests.
RepeatNext ==
    \/ \E c \in Conn, path \in Paths : OnConnect(c, path)
    \/ \E c \in Conn : OnConnectReturns(c)
    \/ \E c \in Conn : StartChargerFirstStep(c)
    \/ \E c \in Conn : StartRaises(c)
    \/ \E c \in Conn : StartReturns(c)
    \/ \E c \in Conn : StartCancelled(c)
    \/ \E id \in AdminIds : DisconnectHandler(id)
    \/ \E id \in AdminIds : DisconnectAgain(id)

RepeatSpec == Init /\ [][RepeatNext]_vars

----------------------------------------------------------------------------
\* Properties.

\* The registered sessions.
Registered == DictKeys(chargers)

\* The supervisor task of c has finished.
TaskFinished(c) == task[c] \in { "done", "cancelled", "failed" }

\* No registered session has this id.
NotRegistered(id) == \A c \in Registered : cp_id[c] # id

\* C1: a disconnect of a registered session is followed by the removal of
\* its entry and by the teardown signal on its queue.  Only disconnect
\* cancels a task, and a finished task takes no further step, so: whenever a
\* task has ended cancelled, its entry is gone and its signal was put.
C1_DisconnectTearsDown ==
    \A c \in Conn :
        task[c] = "cancelled" => c \notin Registered /\ puts[c] >= 1

\* C2: when the supervisor task of a session has completed, for whatever
\* reason, teardown has run exactly once: one removal of the entry and one
\* item put on the teardown queue.
C2_TeardownExactlyOnce ==
    \A c \in Conn :
        TaskFinished(c) => dels[c] = 1 /\ puts[c] = 1

\* C3: no two registered sessions have the same id.
C3_OneEntryPerId ==
    \A c1 \in Registered, c2 \in Registered :
        cp_id[c1] = cp_id[c2] => c1 = c2

\* C4: the number of registry entries equals the number of sessions whose
\* supervisor task has been created and has not finished.
C4_EntryCountIsLiveCount ==
    DictUsed(chargers) = Cardinality({ c \in Conn : task[c] # "none" /\ ~TaskFinished(c) })

\* C5: the broadcast never fails because the registry changed during its
\* iteration (next(it) never raises RuntimeError).
C5_BroadcastToleratesMutation ==
    bc_err # "RuntimeError"

\* C6: a failed call to one session does not end the broadcast.
C6_CallFailureDoesNotAbort ==
    ~(bc_pc = "raised" /\ bc_err \in CallErrors)

\* C7: when the broadcast has ended, every session that was registered from
\* its beginning to its end has been issued exactly one call, and no session
\* more than one.
C7_ExactlyOneCallEach ==
    bc_pc \in { "done", "raised" } =>
        /\ \A c \in bc_start \cap Registered : calls[c] = 1
        /\ \A c \in Conn : calls[c] <= 1

\* The step in which the broadcast issues its call to c.
IssuesCallTo(c) ==
    /\ ChangeConfig \/ CallReturns
    /\ bc_pc' = "awaiting"
    /\ bc_cur' = c

\* C8: the broadcast issues a call only to a session whose entry is in the
\* registry at that moment; a session removed before the iteration reached
\* it gets no call.
C8_NoCallAfterRemoval ==
    [][ \A c \in Conn :
            IssuesCallTo(c) => c \in Registered /\ calls'[c] = 1 ]_vars

\* C8 witness: the iteration has gone on after a session, registered when the
\* broadcast began and not yet called, was removed.
C8_Witness ==
    /\ bc_pc \in { "done", "raised" }
    /\ bc_err \notin CallErrors
    /\ \E c \in bc_start : c \notin Registered /\ calls[c] = 0
    /\ \E c \in bc_start : calls[c] = 1

\* C9: disconnect_charger with an id of no registered session raises
\* ValueError, the handler answers 404, and the registry, the tasks, the
\* cancellation requests and the queues are as before.
C9_DisconnectAbsentChangesNothing ==
    [][ \A id \in AdminIds :
            NotRegistered(id) /\ DisconnectHandler(id) =>
                /\ disconnect_charger(id).raised
                /\ disc_resp'.status = 404
                /\ chargers' = chargers
                /\ must_cancel' = must_cancel
                /\ task' = task
                /\ queue' = queue ]_vars

\* C9 witness: 404 was answered for an id of no registered session while a
\* session with a live, uncancelled task is registered.
C9_Witness ==
    /\ disc_resp.status = 404
    /\ NotRegistered(disc_resp.id)
    /\ \E c \in Registered : task[c] \in { "pending", "running" } /\ ~must_cancel[c]

\* C10: disconnect_charger on a registered session requests the cancellation
\* and returns: registry and queues are as before and the entry is still
\* there; an entry only ever leaves the registry in a step of its own
\* supervisor task, which ends with it.
C10_DisconnectOnlyRequests ==
    [][ /\ \A id \in AdminIds :
               ~NotRegistered(id) /\ DisconnectHandler(id) =>
                   /\ disc_resp'.status = 200
                   /\ chargers' = chargers
                   /\ queue' = queue
                   /\ task' = task
                   /\ \E c \in DictKeys(chargers') : cp_id[c] = id
        /\ \A c \in Conn :
               c \in Registered /\ c \notin DictKeys(chargers') =>
                   task[c] = "running" /\ TaskFinished(c)' ]_vars

\* C10 witness: 200 was answered and the session whose cancellation was
\* requested is still registered, its task not yet finished.
C10_Witness ==
    /\ disc_resp.status = 200
    /\ \E c \in Registered :
           cp_id[c] = disc_resp.id /\ must_cancel[c] /\ ~TaskFinished(c)

\* C11: get_configuration(id) issues one call, to a registered session whose
\* id is the given id, and the handler answers with the result of that call;
\* with no registered session of that id it raises ValueError (404) and
\* issues no call.
C11_QueryTargetsNamedSession ==
    [][ /\ \A id \in AdminIds :
               GetConfigurationHandler(id, TRUE) =>
                   IF NotRegistered(id)
                   THEN /\ q_pc' = "idle"
                        /\ q_cur' = 0
                        /\ q_resp'.status = 404
                        /\ q_resp'.error = "ValueError"
                   ELSE /\ q_pc' = "awaiting"
                        /\ q_cur' \in Registered
                        /\ cp_id[q_cur'] = id
        /\ \A payload \in Payloads :
               GetConfigurationReturns(payload) =>
                   q_resp'.status = 200 /\ q_resp'.body = payload ]_vars

\* C11 witness: the query awaits the call it issued to the session of the
\* given id while a session of another id is registered before it.
C11_Witness ==
    /\ q_pc = "awaiting"
    /\ q_cur \in Registered
    /\ \E c \in Registered : c < q_cur /\ cp_id[c] # cp_id[q_cur]

\* C12: an administrative request (disconnect, get configuration, remote
\* start) that names an id of no registered session is answered 404.
C12_AbsentIdIsNotFound ==
    [][ \A id \in AdminIds, has_id \in BOOLEAN :
            NotRegistered(id) =>
                /\ DisconnectHandler(id) => disc_resp'.status = 404
                /\ GetConfigurationHandler(id, has_id) => q_resp'.status = 404
                /\ RemoteStartHandler(id, has_id) => q_resp'.status = 404 ]_vars

\* C13: while the teardown signal of a session is on its queue, and once its
\* on_connect handler has returned, the session is not in the registry.
C13_SignalOnlyAfterRemoval ==
    \A c \in Conn :
        queue[c] > 0 \/ acceptor[c] = "returned" => c \notin Registered

\* C13 witness: one session's signal is on its queue and another session's
\* on_connect has returned.
C13_Witness ==
    \E c \in Conn, d \in Conn :
        /\ queue[c] > 0 /\ puts[c] = 1
        /\ acceptor[d] = "returned" /\ dels[d] = 1

\* C14: when cp.start() of one session raises, that session is torn down
\* and every other session keeps its place in the registry, its task, its
\* cancellation request and its queue.
C14_FailureTearsDownOnlyItsSession ==
    [][ \A c \in Conn :
            StartRaises(c) =>
                /\ c \notin DictKeys(chargers')
                /\ \A d \in Conn \ { c } :
                       /\ d \in Registered <=> d \in DictKeys(chargers')
                       /\ task'[d] = task[d]
                       /\ must_cancel'[d] = must_cancel[d]
                       /\ queue'[d] = queue[d] ]_vars

\* C14 witness: one session has been torn down by the end of its read loop
\* and another is registered, its task in the read loop, its queue empty.
C14_Witness ==
    \E c \in Conn, d \in Conn :
        /\ task[c] = "done" /\ dels[c] = 1
        /\ d \in Registered /\ task[d] = "running" /\ queue[d] = 0

\* C15: when the cancellation requested by disconnect_charger(id) is
\* delivered to the read loop and teardown has run, no registered session
\* has that id.
C15_LookupAbsentAfterDisconnect ==
    [][ \A c \in Conn :
            StartCancelled(c) => NotRegistered(cp_id[c])' ]_vars

InTeardown(c) == must_cancel[c] \/ TaskFinished(c)

\* C18: a call that is pending on, or was issued on, a session in teardown
\* fails with SessionClosed, which is not the failure of a timeout.
C18_CallOnClosingSessionFailsClosed ==
    [][ \A e \in CallErrors :
            q_pc = "awaiting" /\ InTeardown(q_cur) /\ GetConfigurationRaises(e) =>
                q_resp'.error = "SessionClosed" ]_vars

\* C19: a call that fails (times out) ends for its caller only: registry,
\* tasks, cancellation requests and queues are as before, and so is the
\* other administrative operation in progress.
C19_TimeoutLeavesSessionAlive ==
    [][ \A e \in CallErrors :
            /\ CallRaises(e) \/ GetConfigurationRaises(e) =>
                   /\ chargers' = chargers
                   /\ task' = task
                   /\ must_cancel' = must_cancel
                   /\ queue' = queue
                   /\ puts' = puts
            /\ CallRaises(e) => bc_err' = e /\ UNCHANGED qvars
            /\ GetConfigurationRaises(e) =>
                   q_resp'.error = e /\ UNCHANGED << bc_pc, bc_err, bc_cur >> ]_vars

\* C19 witness: the broadcast's call to a session has timed out, a query
\* has timed out, and the session is registered with its task in the read
\* loop, uncancelled, its queue empty.
C19_Witness ==
    /\ bc_pc = "raised" /\ bc_err = "TimeoutError"
    /\ q_resp.error = "TimeoutError"
    /\ bc_cur \in Registered
    /\ task[bc_cur] = "running" /\ ~must_cancel[bc_cur] /\ queue[bc_cur] = 0

C21_RepeatedDisconnectTearsDownOnce ==
    [][ /\ \A id \in AdminIds :
               DisconnectAgain(id) =>
                   /\ disc_resp'.status = 200
                   /\ must_cancel' = must_cancel
                   /\ chargers' = chargers
                   /\ task' = task
                   /\ queue' = queue
        /\ \A c \in Conn :
               disc_again'[c] /\ TaskFinished(c)' =>
                   /\ c \notin DictKeys(chargers')
                   /\ dels'[c] = 1
                   /\ puts'[c] = 1 ]_vars

\* C22: the put of the finally block never suspends, so the removal of the
\* entry and the put of the signal are one step: the task is never waiting
\* in the put, every removal has its put, a session that has left the
\* registry has its signal put, and no cancellation is pending on a session
\* that has left the registry.
C22_TeardownIsOneStep ==
    \A c \in Conn :
        /\ task[c] # "putting"
        /\ queue[c] <= QueueMaxsize
        /\ puts[c] = dels[c] /\ puts[c] <= 1
        /\ task[c] # "none" /\ c \notin Registered => puts[c] = 1
        /\ must_cancel[c] => c \in Registered

\* C22 witness: a session whose disconnect was requested twice has been torn
\* down by the cancellation, its entry removed and its signal on the queue,
\* while another session is registered.
C22_Witness ==
    \E c \in Conn, d \in Registered :
        /\ disc_again[c] /\ task[c] = "cancelled"
        /\ c \notin Registered /\ dels[c] = 1 /\ puts[c] = 1 /\ queue[c] = 1

\* The first registered session of this id, in registration order.
FirstRegistered(id) ==
    CHOOSE c \in Registered :
        /\ cp_id[c] = id
        /\ \A d \in Registered : cp_id[d] = id => c <= d

\* C23: a disconnect that answers 200 cancels the task of the first
\* registered session of the given id (its cancellation is requested
\* afterwards) and of no other session; every session stays registered and
\* no task changes its state in that step.
C23_DisconnectCancelsFirstMatchOnly ==
    [][ \A id \in AdminIds :
            DisconnectHandler(id) /\ disc_resp'.status = 200 =>
                /\ ~NotRegistered(id)
                /\ must_cancel'[FirstRegistered(id)]
                /\ \A d \in Conn \ { FirstRegistered(id) } :
                       must_cancel'[d] = must_cancel[d]
                /\ chargers' = chargers
                /\ task' = task ]_vars

====
